---------------------------- MODULE Spec2Model ----------------------------
(***************************************************************************)
(* Model of the Bearer authentication gate of priceTracker-api             *)
(* (src/src/middleware/bearerAuth.ts).                                     *)
(*                                                                         *)
(* Strings are sequences of characters; a character is an atom named by a  *)
(* one-character string, except "U+00E9" which names the Latin-1 letter    *)
(* e-acute (one UTF-16 unit, two UTF-8 bytes).                             *)
(***************************************************************************)
EXTENDS Integers, Sequences, FiniteSets, TLC

VARIABLES
    bearerTokens,        \* getBearerTokens(): the configured token sequence
    exemptedPaths,       \* EXEMPTED_PATHS
    logSecurityEvents,   \* getLogSecurityEvents()
    phase,               \* "idle", "pending" (request received) or "handled"
    req,                 \* the request most recently handed to bearerAuth
    result,              \* the BearerAuthResult computed for req
    effects,             \* what bearerAuth did for req, in order
    comparisons,         \* compareTokens calls made while handling req
    parseCall,           \* one call of parseAuthorizationHeader
    cmpCall,             \* one call of compareTokens
    validCall,           \* one call of isValidToken
    exemptCall,          \* one call of isExemptedPath
    pairCall,            \* one request put to two deployments of the gate
    inflight,            \* the requests in flight in one process, by slot
    config0,             \* the configuration the process started with
    mail,                \* the EmailService instance and its call in progress
    ordersDb,            \* the orders table, by orderId
    orderCall,           \* the updateOrder / deleteOrder call in progress
    svcCall,             \* one call of handleServiceError
    emailClass           \* the static side of EmailService: its instance field

vars == <<bearerTokens, exemptedPaths, logSecurityEvents, phase, req, result,
          effects, comparisons, parseCall, cmpCall, validCall,
          exemptCall, pairCall, inflight, config0, mail, ordersDb, orderCall, svcCall, emailClass>>

\* The variables of the harnesses and services that the gate never touches
auxVars == <<exemptCall, pairCall, inflight, config0, mail, ordersDb, orderCall, svcCall, emailClass>>

AuxIdle ==
    /\ exemptCall = "none"
    /\ pairCall = "none"
    /\ inflight = "none"
    /\ config0 = "none"
    /\ mail = "none"
    /\ ordersDb = "none"
    /\ orderCall = "none"
    /\ svcCall = "none" /\ emailClass = "none"

gateVars == <<bearerTokens, exemptedPaths, logSecurityEvents, phase, req, result,
              effects, comparisons>>

---------------------------------------------------------------------------
(* Bounds *)

MaxPieces == 5        \* pieces concatenated into a header (parser harness)
MaxGatePieces == 5    \* pieces concatenated into a header (gate)
MaxTokens == 2        \* entries of the configured token sequence
MaxStrLen == 3        \* characters of a string handed to compareTokens

---------------------------------------------------------------------------
(* Characters and strings *)

\* Characters matched by /\s/ and stripped by String.prototype.trim
WhiteSpace == {" ", "\t"}

\* String.prototype.toLowerCase, one character at a time
ToLowerChar(c) ==
    CASE c = "A" -> "a"
      [] c = "B" -> "b"
      [] c = "E" -> "e"
      [] c = "R" -> "r"
      [] c = "T" -> "t"
      [] OTHER -> c

RECURSIVE toLowerCase(_)
toLowerCase(s) ==
    IF s = <<>> THEN <<>>
    ELSE <<ToLowerChar(Head(s))>> \o toLowerCase(Tail(s))

\* UTF-8 encoding of one character, as Buffer.from(string) produces it
Utf8Char(c) ==
    CASE c = "\t" -> <<9>>
      [] c = " " -> <<32>>
      [] c = "/" -> <<47>>
      [] c = "1" -> <<49>>
      [] c = "2" -> <<50>>
      [] c = "3" -> <<51>>
      [] c = "A" -> <<65>>
      [] c = "B" -> <<66>>
      [] c = "E" -> <<69>>
      [] c = "R" -> <<82>>
      [] c = "T" -> <<84>>
      [] c = "a" -> <<97>>
      [] c = "b" -> <<98>>
      [] c = "c" -> <<99>>
      [] c = "d" -> <<100>>
      [] c = "e" -> <<101>>
      [] c = "h" -> <<104>>
      [] c = "i" -> <<105>>
      [] c = "l" -> <<108>>
      [] c = "o" -> <<111>>
      [] c = "p" -> <<112>>
      [] c = "r" -> <<114>>
      [] c = "s" -> <<115>>
      [] c = "t" -> <<116>>
      [] c = "z" -> <<122>>
      [] c = "U+00E9" -> <<195, 169>>

\* Buffer.from(s): the UTF-8 bytes of s
RECURSIVE BufferFrom(_)
BufferFrom(s) ==
    IF s = <<>> THEN <<>>
    ELSE Utf8Char(Head(s)) \o BufferFrom(Tail(s))

RECURSIVE TrimStart(_)
TrimStart(s) ==
    IF s # <<>> /\ Head(s) \in WhiteSpace THEN TrimStart(Tail(s)) ELSE s

RECURSIVE TrimEnd(_)
TrimEnd(s) ==
    IF s # <<>> /\ s[Len(s)] \in WhiteSpace
    THEN TrimEnd(SubSeq(s, 1, Len(s) - 1))
    ELSE s

\* String.prototype.trim
trim(s) == TrimEnd(TrimStart(s))

\* s.split(/\s+/): the pieces of s between maximal whitespace runs;
\* cur is the piece being read and acc the pieces already closed.  A run at
\* the start or the end of s leaves an empty piece there, and the empty
\* string splits into one empty piece.
RECURSIVE SplitFrom(_, _, _)
SplitFrom(s, cur, acc) ==
    IF s = <<>> THEN Append(acc, cur)
    ELSE IF Head(s) \in WhiteSpace
         THEN SplitFrom(TrimStart(s), <<>>, Append(acc, cur))
         ELSE SplitFrom(Tail(s), Append(cur, Head(s)), acc)

split(s) == SplitFrom(s, <<>>, <<>>)

\* Concatenation of a sequence of strings
RECURSIVE Concat(_)
Concat(ps) == IF ps = <<>> THEN <<>> ELSE Head(ps) \o Concat(Tail(ps))

SeqsUpTo(S, n) == UNION {[1..k -> S] : k \in 0..n}

---------------------------------------------------------------------------
(* Literals *)

BEARER == <<"b", "e", "a", "r", "e", "r">>       \* the scheme literal "bearer"

ERR_MISSING == "Missing authorization"
ERR_MALFORMED == "Malformed header"
ERR_SCHEME == "Invalid scheme"
ERR_TOKEN == "Invalid token"

\* A message is the sequence of its sentences
FORMAT == "Format: Authorization: Bearer <token>"

MSG_MISSING == <<"Authorization header is required.", FORMAT>>
MSG_MALFORMED == <<"Malformed Authorization header.", FORMAT>>
MSG_SCHEME == <<"Authorization header must use Bearer scheme.", FORMAT>>
MSG_EMPTY == <<"Bearer token cannot be empty.", FORMAT>>
MSG_TOKEN == <<"Invalid Bearer token.", "Please check your authentication credentials.">>

---------------------------------------------------------------------------
(* parseAuthorizationHeader *)

NULL == [ok |-> FALSE, scheme |-> <<>>, token |-> <<>>]

\* A bug to compare against: the pieces are counted without trimming first.
parseAuthorizationHeaderNoTrim(authHeader) ==
    LET parts == split(authHeader) IN
    IF Len(parts) # 2 THEN NULL
    ELSE IF parts[1] = <<>> \/ parts[2] = <<>> THEN NULL
    ELSE [ok |-> TRUE, scheme |-> toLowerCase(parts[1]), token |-> trim(parts[2])]

\* A bug to compare against: the header is split as it came and the two
\* pieces are not checked, so "Bearer " parses with an empty token.
parseAuthorizationHeaderKeepEmpty(authHeader) ==
    LET parts == split(authHeader) IN
    IF Len(parts) # 2 THEN NULL
    ELSE [ok |-> TRUE, scheme |-> toLowerCase(parts[1]), token |-> trim(parts[2])]

parseAuthorizationHeader(authHeader) ==
    LET trimmed == trim(authHeader)
        parts == split(trimmed)
    IN
    IF Len(parts) # 2 THEN NULL
    ELSE IF parts[1] = <<>> \/ parts[2] = <<>> THEN NULL
    ELSE [ok |-> TRUE, scheme |-> toLowerCase(parts[1]), token |-> trim(parts[2])]

---------------------------------------------------------------------------
(* Inputs of the parser harness *)

W_Bearer == <<"B", "e", "a", "r", "e", "r">>
W_bEARER == <<"b", "E", "A", "R", "E", "R">>
W_Basic == <<"B", "a", "s", "i", "c">>
W_t1 == <<"t", "1">>
W_T1 == <<"T", "1">>
W_t2 == <<"t", "2">>

HeaderPieces == {<<" ">>, <<"\t">>, W_Bearer, W_bEARER, W_Basic, W_t1, W_T1}

ParseHeaders == {Concat(ps) : ps \in SeqsUpTo(HeaderPieces, MaxPieces)}

GateIdle ==
    /\ bearerTokens = <<>>
    /\ exemptedPaths = <<>>
    /\ logSecurityEvents = FALSE
    /\ phase = "idle"
    /\ req = "none"
    /\ result = "none"
    /\ effects = <<>>
    /\ comparisons = 0

InitParse ==
    /\ GateIdle
    /\ AuxIdle
    /\ parseCall \in {[authHeader |-> h, done |-> FALSE, ret |-> NULL] : h \in ParseHeaders}
    /\ cmpCall = "none"
    /\ validCall = "none"

CallParse ==
    /\ ~parseCall.done
    /\ parseCall' = [parseCall EXCEPT !.done = TRUE,
                                      !.ret = parseAuthorizationHeader(parseCall.authHeader)]
    /\ UNCHANGED <<gateVars, cmpCall, validCall, auxVars>>

NextParse == CallParse

SpecParse == InitParse /\ [][NextParse]_vars

---------------------------------------------------------------------------
(* An independent reading of "the tokens of a header": its maximal runs    *)
(* of non-whitespace characters, read left to right.                       *)

RECURSIVE TokensOf(_)
TokensOf(s) ==
    IF s = <<>> THEN <<>>
    ELSE IF Head(s) \in WhiteSpace THEN TokensOf(Tail(s))
    ELSE LET n == CHOOSE k \in 1..Len(s) :
                    /\ \A i \in 1..k : s[i] \notin WhiteSpace
                    /\ (k = Len(s) \/ s[k + 1] \in WhiteSpace)
         IN <<SubSeq(s, 1, n)>> \o TokensOf(SubSeq(s, n + 1, Len(s)))

\* Case-insensitive equality on the modelled alphabet
EqIgnoreCase(a, b) ==
    /\ Len(a) = Len(b)
    /\ \A i \in 1..Len(a) : ToLowerChar(a[i]) = ToLowerChar(b[i])

\* C9: parseAuthorizationHeader succeeds exactly when the header has two
\* whitespace-separated tokens; the scheme is then the first token
\* lower-cased and the token is the second token unchanged, whatever the
\* whitespace around and between them; with 0, 1 or 3+ tokens it is null.
C9_ParseExactlyTwoTokens ==
    parseCall.done =>
        LET toks == TokensOf(parseCall.authHeader) IN
        /\ parseCall.ret.ok <=> Len(toks) = 2
        /\ Len(toks) = 2 =>
              /\ EqIgnoreCase(parseCall.ret.scheme, toks[1])
              /\ \A i \in 1..Len(parseCall.ret.scheme) :
                     ToLowerChar(parseCall.ret.scheme[i]) = parseCall.ret.scheme[i]
              /\ parseCall.ret.token = toks[2]
        /\ Len(toks) # 2 => parseCall.ret = NULL

\* " bEARER \t T1 " : leading, trailing and a mixed interior run
C9_Witness ==
    /\ parseCall.done
    /\ parseCall.authHeader = <<" ">> \o W_bEARER \o <<" ", "\t">> \o W_T1
    /\ parseCall.ret = [ok |-> TRUE, scheme |-> BEARER, token |-> W_T1]

---------------------------------------------------------------------------
(* compareTokens *)

\* What a call returns: threw tells whether an exception left the call
Returned(v) == [threw |-> FALSE, value |-> v]
Thrown == [threw |-> TRUE, value |-> FALSE]

\* crypto.timingSafeEqual(a, b): throws when the byte lengths differ,
\* otherwise tells whether the buffers agree at every index
timingSafeEqual(a, b) ==
    IF Len(a) # Len(b) THEN Thrown
    ELSE Returned(\A i \in 1..Len(a) : a[i] = b[i])

\* The body of the try block.  fault stands for an exception raised by a
\* step of the block (Buffer.from or timingSafeEqual failing).
compareTokensTry(providedToken, validToken, fault) ==
    IF fault THEN Thrown
    ELSE LET providedBuffer == BufferFrom(providedToken)
             validBuffer == BufferFrom(validToken)
         IN IF Len(providedBuffer) # Len(validBuffer) THEN Returned(FALSE)
            ELSE timingSafeEqual(providedBuffer, validBuffer)

\* A bug to compare against: the tokens are compared ignoring case.
compareTokensIgnoreCase(providedToken, validToken, fault) ==
    LET r == compareTokensTry(toLowerCase(providedToken), toLowerCase(validToken), fault)
    IN IF r.threw THEN Returned(FALSE) ELSE r

\* A bug to compare against: no catch clause around the comparison.
compareTokensNoCatch(providedToken, validToken, fault) ==
    compareTokensTry(providedToken, validToken, fault)

compareTokens(providedToken, validToken, fault) ==
    LET r == compareTokensTry(providedToken, validToken, fault)
    IN IF r.threw THEN Returned(FALSE) ELSE r

CmpChars == {"t", "T", "1", "U+00E9"}

CmpStrings == SeqsUpTo(CmpChars, MaxStrLen)

InitCompare ==
    /\ GateIdle
    /\ AuxIdle
    /\ parseCall = "none"
    /\ cmpCall \in {[a |-> a, b |-> b, fault |-> f, done |-> FALSE, ret |-> Returned(FALSE)] :
                        a \in CmpStrings, b \in CmpStrings, f \in BOOLEAN}
    /\ validCall = "none"

CallCompare ==
    /\ ~cmpCall.done
    /\ cmpCall' = [cmpCall EXCEPT !.done = TRUE,
                                  !.ret = compareTokens(cmpCall.a, cmpCall.b, cmpCall.fault)]
    /\ UNCHANGED <<gateVars, parseCall, validCall, auxVars>>

NextCompare == CallCompare

SpecCompare == InitCompare /\ [][NextCompare]_vars

---------------------------------------------------------------------------
(* isValidToken *)

\* The for loop from entry i on; faults is the set of entries whose
\* comparison raises an exception inside compareTokens; calls counts the
\* compareTokens calls made.
RECURSIVE isValidTokenFrom(_, _, _, _)
isValidTokenFrom(token, validTokens, faults, i) ==
    IF i > Len(validTokens) THEN [threw |-> FALSE, value |-> FALSE, calls |-> i - 1]
    ELSE LET c == compareTokens(token, validTokens[i], i \in faults) IN
         IF c.threw THEN [threw |-> TRUE, value |-> FALSE, calls |-> i]
         ELSE IF c.value THEN [threw |-> FALSE, value |-> TRUE, calls |-> i]
         ELSE isValidTokenFrom(token, validTokens, faults, i + 1)

\* A bug to compare against: only the first configured token is tried.
isValidTokenFirstOnly(token, validTokens, faults) ==
    isValidTokenFrom(token, IF validTokens = <<>> THEN <<>> ELSE <<validTokens[1]>>,
                     faults, 1)

\* A variant to compare against: the loop never stops early.
RECURSIVE isValidTokenAllFrom(_, _, _, _, _)
isValidTokenAllFrom(token, validTokens, faults, i, found) ==
    IF i > Len(validTokens) THEN [threw |-> FALSE, value |-> found, calls |-> i - 1]
    ELSE LET c == compareTokens(token, validTokens[i], i \in faults) IN
         IF c.threw THEN [threw |-> TRUE, value |-> FALSE, calls |-> i]
         ELSE isValidTokenAllFrom(token, validTokens, faults, i + 1, found \/ c.value)

isValidTokenNoBreak(token, validTokens, faults) ==
    isValidTokenAllFrom(token, validTokens, faults, 1, FALSE)

\* A bug to compare against: with no token configured, every token passes.
isValidTokenOpenWhenUnset(token, validTokens, faults) ==
    IF validTokens = <<>> THEN [threw |-> FALSE, value |-> TRUE, calls |-> 0]
    ELSE isValidTokenFrom(token, validTokens, faults, 1)

isValidToken(token, validTokens, faults) ==
    isValidTokenFrom(token, validTokens, faults, 1)

W_t3 == <<"t", "3">>

\* Values a deployment puts in BEARER_TOKENS
ConfigTokens == {W_t1, W_t2}

TokenSets == SeqsUpTo(ConfigTokens, MaxTokens)

CandidateTokens == {<<>>, W_t1, W_t2, W_T1, W_t3}

InitValid ==
    /\ GateIdle
    /\ AuxIdle
    /\ parseCall = "none"
    /\ cmpCall = "none"
    /\ validCall \in {[token |-> t, validTokens |-> ts, faults |-> fs, done |-> FALSE,
                       ret |-> [threw |-> FALSE, value |-> FALSE, calls |-> 0]] :
                          t \in CandidateTokens, ts \in TokenSets, fs \in SUBSET (1..MaxTokens)}
    /\ validCall.faults \subseteq 1..Len(validCall.validTokens)

CallValid ==
    /\ ~validCall.done
    /\ validCall' = [validCall EXCEPT !.done = TRUE,
                         !.ret = isValidToken(validCall.token, validCall.validTokens,
                                              validCall.faults)]
    /\ UNCHANGED <<gateVars, parseCall, cmpCall, auxVars>>

NextValid == CallValid

SpecValid == InitValid /\ [][NextValid]_vars

---------------------------------------------------------------------------
(* Claims about compareTokens and isValidToken *)

\* C7: compareTokens(a, b) is true iff a and b are byte-identical: false
\* when the byte lengths differ, false when equal-length buffers differ at
\* some position, true when they differ at none; case matters.
C7_CompareIffByteIdentical ==
    (cmpCall.done /\ ~cmpCall.fault) =>
        LET x == BufferFrom(cmpCall.a)
            y == BufferFrom(cmpCall.b)
        IN
        /\ ~cmpCall.ret.threw
        /\ cmpCall.ret.value <=> x = y
        /\ cmpCall.ret.value <=> cmpCall.a = cmpCall.b
        /\ Len(x) # Len(y) => ~cmpCall.ret.value
        /\ (Len(x) = Len(y) /\ \E i \in 1..Len(x) : x[i] # y[i]) => ~cmpCall.ret.value
        /\ (Len(x) = Len(y) /\ \A i \in 1..Len(x) : x[i] = y[i]) => cmpCall.ret.value

\* equal byte length, the only difference is the case of the last character
C7_Witness ==
    /\ cmpCall.done
    /\ ~cmpCall.fault
    /\ cmpCall.a = <<"t", "1", "t">>
    /\ cmpCall.b = <<"t", "1", "T">>
    /\ cmpCall.ret = Returned(FALSE)

\* C5: isValidToken(token) is true exactly when the token is byte-identical
\* to some entry of the configured set, wherever that entry stands; with
\* the empty set it is false for every token.
C5_ValidIffInConfiguredSet ==
    validCall.done =>
        LET matches == {i \in 1..Len(validCall.validTokens) :
                          BufferFrom(validCall.token) = BufferFrom(validCall.validTokens[i])}
        IN
        /\ ~validCall.ret.threw
        /\ validCall.ret.value => matches # {}
        /\ validCall.faults = {} => (validCall.ret.value <=> matches # {})
        /\ validCall.validTokens = <<>> => ~validCall.ret.value

\* the matching entry is the last one
C5_Witness ==
    /\ validCall.done
    /\ validCall.faults = {}
    /\ validCall.token = W_t2
    /\ validCall.validTokens = <<W_t1, W_t2>>
    /\ validCall.ret.value

---------------------------------------------------------------------------
(* The gate: isExemptedPath, validateBearerAuth, bearerAuth *)

\* String.prototype.startsWith
startsWith(s, prefix) ==
    /\ Len(prefix) <= Len(s)
    /\ SubSeq(s, 1, Len(prefix)) = prefix

\* A bug to compare against: any path that begins with an entry is exempted.
isExemptedPathPrefixOnly(path, exempted) ==
    \E i \in 1..Len(exempted) :
        path = exempted[i] \/ startsWith(path, exempted[i])

isExemptedPath(path, exempted) ==
    \E i \in 1..Len(exempted) :
        path = exempted[i] \/ startsWith(path, exempted[i] \o <<"/">>)

\* The value of req.get("Authorization")
Absent == [present |-> FALSE, value |-> <<>>]
Present(s) == [present |-> TRUE, value |-> s]

\* A BearerAuthResult, with what the call did to reach it: parsed tells
\* whether parseAuthorizationHeader was called, calls counts the
\* compareTokens calls, threw tells whether an exception left the call
Success(exempted, parsed, calls) ==
    [success |-> TRUE, exempted |-> exempted, error |-> "", message |-> <<>>,
     threw |-> FALSE, parsed |-> parsed, calls |-> calls]

Failure(error, message, parsed, calls) ==
    [success |-> FALSE, exempted |-> FALSE, error |-> error, message |-> message,
     threw |-> FALSE, parsed |-> parsed, calls |-> calls]

Escaped(calls) ==
    [success |-> FALSE, exempted |-> FALSE, error |-> "", message |-> <<>>,
     threw |-> TRUE, parsed |-> TRUE, calls |-> calls]

\* !authHeader || authHeader.trim() === ""
HeaderMissing(authHeader) ==
    ~authHeader.present \/ authHeader.value = <<>> \/ trim(authHeader.value) = <<>>

\* A bug to compare against: the rejection quotes the presented token.
ValidateTokenEchoToken(token, validTokens, faults) ==
    LET v == isValidToken(token, validTokens, faults) IN
    IF v.threw THEN Escaped(v.calls)
    ELSE IF ~v.value THEN Failure(ERR_TOKEN, <<"Invalid Bearer token:", token>>, TRUE, v.calls)
    ELSE Success(FALSE, TRUE, v.calls)

\* A bug to compare against: an unconfigured server says so.
ValidateTokenSaysUnconfigured(token, validTokens, faults) ==
    LET v == isValidToken(token, validTokens, faults) IN
    IF v.threw THEN Escaped(v.calls)
    ELSE IF ~v.value
    THEN Failure(ERR_TOKEN,
                 IF validTokens = <<>> THEN <<"No Bearer token is configured.">> ELSE MSG_TOKEN,
                 TRUE, v.calls)
    ELSE Success(FALSE, TRUE, v.calls)

\* Steps 6 and 7: the token is validated against the configured tokens
ValidateToken(token, validTokens, faults) ==
    LET v == isValidToken(token, validTokens, faults) IN
    IF v.threw THEN Escaped(v.calls)
    ELSE IF ~v.value THEN Failure(ERR_TOKEN, MSG_TOKEN, TRUE, v.calls)
    ELSE Success(FALSE, TRUE, v.calls)

\* A bug to compare against: the header is looked at before the path.
validateBearerAuthHeaderFirst(authHeader, path, validTokens, exempted, faults) ==
    IF HeaderMissing(authHeader) THEN Failure(ERR_MISSING, MSG_MISSING, FALSE, 0)
    ELSE IF isExemptedPath(path, exempted) THEN Success(TRUE, FALSE, 0)
    ELSE LET parsed == parseAuthorizationHeader(authHeader.value) IN
         IF ~parsed.ok THEN Failure(ERR_MALFORMED, MSG_MALFORMED, TRUE, 0)
         ELSE IF parsed.scheme # BEARER THEN Failure(ERR_SCHEME, MSG_SCHEME, TRUE, 0)
         ELSE IF parsed.token = <<>> THEN Failure(ERR_MALFORMED, MSG_EMPTY, TRUE, 0)
         ELSE ValidateToken(parsed.token, validTokens, faults)

\* A bug to compare against: the scheme is read off the first piece and
\* checked before the pieces are counted.
validateBearerAuthSchemeFirst(authHeader, path, validTokens, exempted, faults) ==
    IF isExemptedPath(path, exempted) THEN Success(TRUE, FALSE, 0)
    ELSE IF HeaderMissing(authHeader) THEN Failure(ERR_MISSING, MSG_MISSING, FALSE, 0)
    ELSE LET parts == split(trim(authHeader.value))
             parsed == parseAuthorizationHeader(authHeader.value)
         IN
         IF toLowerCase(parts[1]) # BEARER THEN Failure(ERR_SCHEME, MSG_SCHEME, TRUE, 0)
         ELSE IF ~parsed.ok THEN Failure(ERR_MALFORMED, MSG_MALFORMED, TRUE, 0)
         ELSE IF parsed.token = <<>> THEN Failure(ERR_MALFORMED, MSG_EMPTY, TRUE, 0)
         ELSE ValidateToken(parsed.token, validTokens, faults)

\* A bug to compare against: the token is whatever follows the scheme,
\* possibly nothing, and goes to the validator unchecked.
validateBearerAuthRestIsToken(authHeader, path, validTokens, exempted, faults) ==
    IF isExemptedPath(path, exempted) THEN Success(TRUE, FALSE, 0)
    ELSE IF HeaderMissing(authHeader) THEN Failure(ERR_MISSING, MSG_MISSING, FALSE, 0)
    ELSE LET parts == split(trim(authHeader.value)) IN
         IF Len(parts) > 2 THEN Failure(ERR_MALFORMED, MSG_MALFORMED, TRUE, 0)
         ELSE IF toLowerCase(parts[1]) # BEARER THEN Failure(ERR_SCHEME, MSG_SCHEME, TRUE, 0)
         ELSE ValidateToken(IF Len(parts) = 2 THEN parts[2] ELSE <<>>, validTokens, faults)

validateBearerAuth(authHeader, path, validTokens, exempted, faults) ==
    IF isExemptedPath(path, exempted) THEN Success(TRUE, FALSE, 0)
    ELSE IF HeaderMissing(authHeader) THEN Failure(ERR_MISSING, MSG_MISSING, FALSE, 0)
    ELSE LET parsed == parseAuthorizationHeader(authHeader.value) IN
         IF ~parsed.ok THEN Failure(ERR_MALFORMED, MSG_MALFORMED, TRUE, 0)
         ELSE IF parsed.scheme # BEARER THEN Failure(ERR_SCHEME, MSG_SCHEME, TRUE, 0)
         ELSE IF parsed.token = <<>> THEN Failure(ERR_MALFORMED, MSG_EMPTY, TRUE, 0)
         ELSE ValidateToken(parsed.token, validTokens, faults)

\* getClientIP
getClientIP(r) ==
    IF r.ip # "" THEN r.ip
    ELSE IF r.remoteAddress # "" THEN r.remoteAddress
    ELSE "unknown"

\* console.warn(line): the call is made and returns; the console of the
\* runtime swallows an error of its stream, so a line that cannot be
\* written (sinkOk false) is dropped without an exception
consoleWarnThrows(line, sinkOk) ==
    [threw |-> ~sinkOk, calls |-> <<[line EXCEPT !.delivered = sinkOk]>>]

consoleWarn(line, sinkOk) ==
    [threw |-> FALSE, calls |-> <<[line EXCEPT !.delivered = sinkOk]>>]

\* A bug to compare against: the event is written whatever the flag says.
logAuthenticationFailureAlways(event, details, enabled, sinkOk) ==
    consoleWarn([kind |-> "log", event |-> event, timestamp |-> "toISOString",
                 details |-> details, delivered |-> FALSE], sinkOk)

\* logAuthenticationFailure: one console.warn when the flag is set, nothing
\* otherwise
logAuthenticationFailure(event, details, enabled, sinkOk) ==
    IF enabled
    THEN consoleWarn([kind |-> "log", event |-> event, timestamp |-> "toISOString",
                      details |-> details, delivered |-> FALSE], sinkOk)
    ELSE [threw |-> FALSE, calls |-> <<>>]

Response401(res) ==
    [kind |-> "response", status |-> 401,
     body |-> [success |-> FALSE, error |-> res.error,
               message |-> res.message, timestamp |-> "toISOString"]]

\* The call at lines 303-308
LogFailure(r, res, enabled) ==
    logAuthenticationFailure("Authentication failed",
                             [error |-> res.error, path |-> r.path,
                              clientIp |-> getClientIP(r),
                              userAgent |-> r.userAgent], enabled, r.sinkOk)

\* A bug to compare against: no return after the 401 response.
GateEffectsNoReturn(r, res, enabled) ==
    IF res.threw THEN <<[kind |-> "throw"]>>
    ELSE IF ~res.success
    THEN LET log == LogFailure(r, res, enabled) IN
         IF log.threw THEN log.calls \o <<[kind |-> "throw"]>>
         ELSE log.calls \o <<Response401(res), [kind |-> "next"]>>
    ELSE <<[kind |-> "next"]>>

\* What bearerAuth does with a result, in order; an exception of the log
\* call leaves bearerAuth, there is no try block around it
GateEffects(r, res, enabled) ==
    IF res.threw THEN <<[kind |-> "throw"]>>
    ELSE IF ~res.success
    THEN LET log == LogFailure(r, res, enabled) IN
         IF log.threw THEN log.calls \o <<[kind |-> "throw"]>>
         ELSE log.calls \o <<Response401(res)>>
    ELSE <<[kind |-> "next"]>>

P_orders == <<"/", "a", "p", "i", "/", "o", "r", "d", "e", "r", "s">>
P_health == <<"/", "a", "p", "i", "/", "h", "e", "a", "l", "t", "h">>
P_healthz == P_health \o <<"z">>
P_health_d == P_health \o <<"/", "d">>

Paths == {P_orders, P_health, P_healthz, P_health_d}

GatePaths == {P_orders, P_health, P_health_d}

\* EXEMPTED_PATHS as shipped, and as it is when health checks are exempted
\* in the middleware
ExemptedConfigs == {<<>>, <<P_health>>}

GatePieces == {<<" ">>, W_bEARER, W_t1, W_T1}

GateHeaders ==
    {Absent} \cup {Present(Concat(ps)) : ps \in SeqsUpTo(GatePieces, MaxGatePieces)}

Requests ==
    {[authorization |-> h, path |-> p, ip |-> "10.0.0.1", remoteAddress |-> "10.0.0.1",
      userAgent |-> "curl", sinkOk |-> TRUE] : h \in GateHeaders, p \in GatePaths}

\* req.get("User-Agent") of a request without the header
UNDEFINED == "undefined"

LogHeaders == {Absent, Present(W_bEARER), Present(W_t1 \o <<" ">> \o W_t1),
               Present(W_bEARER \o <<" ">> \o W_t1), Present(W_bEARER \o <<" ">> \o W_T1)}

\* Requests that vary what the log record is built from, and whether the
\* stream behind console.warn can be written
LogRequests ==
    {[authorization |-> h, path |-> p, ip |-> ip, remoteAddress |-> ra,
      userAgent |-> ua, sinkOk |-> ok] :
        h \in LogHeaders, p \in GatePaths, ip \in {"", "10.0.0.1"},
        ra \in {"", "192.0.2.1"}, ua \in {UNDEFINED, "curl"}, ok \in BOOLEAN}

Init ==
    /\ bearerTokens \in TokenSets
    /\ exemptedPaths \in ExemptedConfigs
    /\ logSecurityEvents \in BOOLEAN
    /\ phase = "idle"
    /\ req = "none"
    /\ result = "none"
    /\ effects = <<>>
    /\ comparisons = 0
    /\ parseCall = "none"
    /\ cmpCall = "none"
    /\ validCall = "none"
    /\ AuxIdle

configVars == <<bearerTokens, exemptedPaths, logSecurityEvents>>
callVars == <<parseCall, cmpCall, validCall>>

\* Express hands a request to the middleware.  req.faults is the set of
\* configured-token entries whose comparison will raise an exception.
ArriveFrom(Reqs) ==
    /\ phase = "idle"
    /\ \E r \in Reqs, faults \in SUBSET (1..Len(bearerTokens)) :
           req' = [authorization |-> r.authorization, path |-> r.path, ip |-> r.ip,
                   remoteAddress |-> r.remoteAddress, userAgent |-> r.userAgent,
                   sinkOk |-> r.sinkOk, faults |-> faults]
    /\ phase' = "pending"
    /\ UNCHANGED <<configVars, result, effects, comparisons, callVars, auxVars>>

Arrive == ArriveFrom(Requests)

ArriveLog == ArriveFrom(LogRequests)

\* bearerAuth handles the request from beginning to end
bearerAuth ==
    /\ phase = "pending"
    /\ LET res == validateBearerAuth(req.authorization, req.path, bearerTokens,
                                     exemptedPaths, req.faults)
       IN
       /\ result' = res
       /\ effects' = GateEffects(req, res, logSecurityEvents)
       /\ comparisons' = res.calls
    /\ phase' = "handled"
    /\ UNCHANGED <<configVars, req, callVars, auxVars>>

\* The request cycle ends; the middleware keeps nothing of it
Complete ==
    /\ phase = "handled"
    /\ phase' = "idle"
    /\ req' = "none"
    /\ result' = "none"
    /\ effects' = <<>>
    /\ comparisons' = 0
    /\ UNCHANGED <<configVars, callVars, auxVars>>

Next == Arrive \/ bearerAuth \/ Complete

Spec == Init /\ [][Next]_vars

\* The gate fed with LogRequests
NextLog == ArriveLog \/ bearerAuth \/ Complete

SpecLog == Init /\ [][NextLog]_vars

---------------------------------------------------------------------------
(* Claims about the gate *)

NextCalls == Cardinality({i \in 1..Len(effects) : effects[i].kind = "next"})
ResponseIdx == {i \in 1..Len(effects) : effects[i].kind = "response"}
Threw == \E i \in 1..Len(effects) : effects[i].kind = "throw"

ErrorCodes == {ERR_MISSING, ERR_SCHEME, ERR_TOKEN, ERR_MALFORMED}

\* The path is exempted, read off the statement of the exemption rule
Exempted(path) ==
    \E i \in 1..Len(exemptedPaths) :
        \/ path = exemptedPaths[i]
        \/ /\ Len(path) > Len(exemptedPaths[i])
           /\ \A k \in 1..Len(exemptedPaths[i]) : path[k] = exemptedPaths[i][k]
           /\ path[Len(exemptedPaths[i]) + 1] = "/"

\* The header is absent or holds nothing but whitespace
Blank(h) == ~h.present \/ \A i \in 1..Len(h.value) : h.value[i] \in WhiteSpace

Configured(token) ==
    \E i \in 1..Len(bearerTokens) : BufferFrom(token) = BufferFrom(bearerTokens[i])

\* C1: with no exempted path, next() is called only for a request whose
\* Authorization header is present, has exactly two whitespace-separated
\* tokens, the first being "bearer" in any case and the second
\* byte-identical to a configured token.
C1_NextOnlyWithValidBearer ==
    (phase = "handled" /\ exemptedPaths = <<>> /\ NextCalls > 0) =>
        /\ req.authorization.present
        /\ LET toks == TokensOf(req.authorization.value) IN
           /\ Len(toks) = 2
           /\ EqIgnoreCase(toks[1], BEARER)
           /\ Configured(toks[2])

\* "bEARER  t1" against the tokens t2, t1
C1_Witness ==
    /\ phase = "handled"
    /\ exemptedPaths = <<>>
    /\ bearerTokens = <<W_t2, W_t1>>
    /\ req.authorization = Present(W_bEARER \o <<" ", " ">> \o W_t1)
    /\ NextCalls = 1

\* C2: the gate does exactly one of two things: on success one next() and
\* no response; on failure one response, status 401, body success=false
\* with one of the four error codes, a message and a timestamp, and no
\* next().  Nothing else is ever produced.
C2_NextXorResponse401 ==
    phase = "handled" =>
        /\ ~Threw
        /\ result.success =>
              /\ NextCalls = 1
              /\ ResponseIdx = {}
        /\ ~result.success =>
              /\ NextCalls = 0
              /\ Cardinality(ResponseIdx) = 1
              /\ \A i \in ResponseIdx :
                    /\ effects[i].status = 401
                    /\ effects[i].body.success = FALSE
                    /\ effects[i].body.error \in ErrorCodes
                    /\ effects[i].body.error = result.error
                    /\ effects[i].body.message # <<>>
                    /\ effects[i].body.timestamp # ""

\* a rejected request with logging on: the response and no next()
C2_Witness ==
    /\ phase = "handled"
    /\ logSecurityEvents
    /\ req.authorization = Present(W_T1 \o <<" ">> \o W_t1)
    /\ req.path = P_orders
    /\ NextCalls = 0
    /\ Cardinality(ResponseIdx) = 1
    /\ Len(effects) = 2

\* C3: validateBearerAuth returns the outcome of the first matching step
\* of: exempted path, missing header, not two tokens, scheme not bearer,
\* empty token, token not configured, success.  With req.faults empty the
\* last two steps are decided by membership in the configured set.
C3_FirstMatchingStep ==
    phase = "handled" =>
        LET h == req.authorization
            toks == IF h.present THEN TokensOf(h.value) ELSE <<>>
        IN
        IF Exempted(req.path) THEN result.success /\ result.exempted
        ELSE IF Blank(h) THEN result.error = ERR_MISSING /\ ~result.success
        ELSE IF Len(toks) # 2 THEN result.error = ERR_MALFORMED /\ ~result.success
        ELSE IF ~EqIgnoreCase(toks[1], BEARER) THEN result.error = ERR_SCHEME /\ ~result.success
        ELSE IF toks[2] = <<>> THEN result.error = ERR_MALFORMED /\ ~result.success
        ELSE IF ~Configured(toks[2]) THEN result.error = ERR_TOKEN /\ ~result.success
        ELSE IF req.faults = {} THEN result.success /\ ~result.exempted
        ELSE (result.success /\ ~result.exempted) \/ result.error = ERR_TOKEN

\* "t1 t1": two tokens, a scheme that is not bearer, a configured token
C3_Witness ==
    /\ phase = "handled"
    /\ exemptedPaths = <<>>
    /\ bearerTokens = <<W_t1>>
    /\ req.authorization = Present(W_t1 \o <<" ">> \o W_t1)
    /\ result.error = ERR_SCHEME

\* C4: on an exempted path validateBearerAuth returns success marked
\* exempted for every header, an absent one included, without parsing the
\* header or comparing a token, and the gate lets the request proceed.
C4_ExemptedPathBypasses ==
    (phase = "handled" /\ Exempted(req.path)) =>
        /\ result.success
        /\ result.exempted
        /\ ~result.parsed
        /\ comparisons = 0
        /\ effects = <<[kind |-> "next"]>>

\* a sub-path of the exempted entry, no header at all
C4_Witness ==
    /\ phase = "handled"
    /\ exemptedPaths = <<P_health>>
    /\ req.path = P_health_d
    /\ req.authorization = Absent
    /\ result.exempted
    /\ NextCalls = 1

\* C8: an exception inside a comparison never yields a match and never
\* leaves the gate: no result rests on a faulted comparison, and a
\* well-formed Bearer request whose comparisons all fault ends as
\* 401 "Invalid token".
C8_ComparisonFaultIsNoMatch ==
    phase = "handled" =>
        /\ ~result.threw
        /\ ~Threw
        /\ (result.success /\ ~result.exempted) => comparisons \notin req.faults
        /\ (comparisons > 0 /\ \A i \in 1..comparisons : i \in req.faults) =>
              /\ result.error = ERR_TOKEN
              /\ \E i \in ResponseIdx :
                    effects[i].status = 401 /\ effects[i].body.error = ERR_TOKEN

\* the configured token itself is presented and its comparison faults
C8_Witness ==
    /\ phase = "handled"
    /\ bearerTokens = <<W_t1>>
    /\ req.faults = {1}
    /\ req.authorization = Present(W_bEARER \o <<" ">> \o W_t1)
    /\ req.path = P_orders
    /\ result.error = ERR_TOKEN
    /\ comparisons = 1

\* C10: a header made of the Bearer scheme and whitespace only is rejected
\* with 401 "Malformed header", whatever tokens are configured.
C10_SchemeOnlyIsMalformed ==
    (/\ phase = "handled"
     /\ ~Exempted(req.path)
     /\ req.authorization.present
     /\ Len(TokensOf(req.authorization.value)) = 1
     /\ EqIgnoreCase(TokensOf(req.authorization.value)[1], BEARER)) =>
        /\ result.error = ERR_MALFORMED
        /\ Cardinality(ResponseIdx) = 1
        /\ \A i \in ResponseIdx :
              effects[i].status = 401 /\ effects[i].body.error = ERR_MALFORMED
        /\ NextCalls = 0

\* "bEARER  " with tokens configured
C10_Witness ==
    /\ phase = "handled"
    /\ bearerTokens = <<W_t1, W_t2>>
    /\ req.authorization = Present(W_bEARER \o <<" ", " ">>)
    /\ req.path = P_orders
    /\ result.error = ERR_MALFORMED

\* C21: the empty-token check of validateBearerAuth never decides: a header
\* that parses has a non-empty token and goes on to the scheme and token
\* steps, so every "Malformed header" result is for a header without
\* exactly two tokens and carries the message "Malformed Authorization
\* header. Format: Authorization: Bearer <token>".
C21_EmptyTokenCheckNeverDecides ==
    (phase = "handled" /\ ~Exempted(req.path) /\ req.authorization.present) =>
        LET tokens == TokensOf(req.authorization.value) IN
        /\ result.message # <<"Bearer token cannot be empty.",
                              "Format: Authorization: Bearer <token>">>
        /\ result.error = ERR_MALFORMED =>
              /\ Len(tokens) \notin {0, 2}
              /\ result.message = <<"Malformed Authorization header.",
                                    "Format: Authorization: Bearer <token>">>
              /\ \A i \in ResponseIdx : effects[i].body.message = result.message
        /\ Len(tokens) = 2 => (~result.threw => result.error \in {ERR_SCHEME, ERR_TOKEN, ""})

\* three tokens after the scheme's own: rejected by the count
C21_Witness ==
    /\ phase = "handled"
    /\ req.authorization = Present(W_bEARER \o <<" ">> \o W_t1 \o <<" ">> \o W_T1)
    /\ req.path = P_orders
    /\ result.error = ERR_MALFORMED
    /\ result.message = MSG_MALFORMED
    /\ Cardinality(ResponseIdx) = 1

---------------------------------------------------------------------------
(* isExemptedPath on its own *)

MaxPathPieces == 3    \* pieces concatenated into a request path
MaxExempted == 2      \* entries of the exempted path list

P_api == <<"/", "a", "p", "i">>

PathPieces == {P_api, <<"/", "h", "e", "a", "l", "t", "h">>, <<"z">>, <<"/">>, <<"/", "d">>}

ExemptPaths == {Concat(ps) : ps \in SeqsUpTo(PathPieces, MaxPathPieces)}

ExemptedLists == SeqsUpTo({P_health, P_api}, MaxExempted)

InitExempt ==
    /\ GateIdle
    /\ parseCall = "none" /\ cmpCall = "none" /\ validCall = "none"
    /\ exemptCall \in {[path |-> p, exempted |-> e, done |-> FALSE, ret |-> FALSE] :
                          p \in ExemptPaths, e \in ExemptedLists}
    /\ pairCall = "none" /\ inflight = "none" /\ config0 = "none" /\ mail = "none"
    /\ ordersDb = "none" /\ orderCall = "none" /\ svcCall = "none" /\ emailClass = "none"

CallExempt ==
    /\ ~exemptCall.done
    /\ exemptCall' = [exemptCall EXCEPT !.done = TRUE,
                         !.ret = isExemptedPath(exemptCall.path, exemptCall.exempted)]
    /\ UNCHANGED <<gateVars, callVars, pairCall, inflight, config0, mail, ordersDb,
                   orderCall, svcCall, emailClass>>

NextExempt == CallExempt

SpecExempt == InitExempt /\ [][NextExempt]_vars

\* C11: isExemptedPath(path) is true exactly when the path equals an
\* exempted entry or begins with an entry immediately followed by "/";
\* sharing a prefix without the separator ("/api/healthz" against
\* "/api/health") does not exempt; with the empty list nothing is exempted.
C11_ExemptedIffEntryOrSubpath ==
    exemptCall.done =>
        LET p == exemptCall.path
            es == exemptCall.exempted
            Under(e) == /\ Len(p) > Len(e)
                        /\ \A k \in 1..Len(e) : p[k] = e[k]
                        /\ p[Len(e) + 1] = "/"
        IN
        /\ exemptCall.ret <=> \E i \in 1..Len(es) : p = es[i] \/ Under(es[i])
        /\ es = <<>> => ~exemptCall.ret
        /\ (p = P_healthz /\ es = <<P_health>>) => ~exemptCall.ret

\* "/api/healthz" against the list ["/api/health"]: not exempted
C11_Witness ==
    /\ exemptCall.done
    /\ exemptCall.path = P_healthz
    /\ exemptCall.exempted = <<P_health>>
    /\ ~exemptCall.ret

---------------------------------------------------------------------------
(* Failure messages *)

\* The message carries the sentence that states the expected format
EchoesFormat(msg) == \E i \in 1..Len(msg) : msg[i] = FORMAT

\* C12 as claimed: every failure result carries a message that echoes the
\* expected format "Authorization: Bearer <token>".
C12_Original_EveryMessageEchoesFormat ==
    (phase = "handled" /\ ~result.success) => EchoesFormat(result.message)

\* C12 as amended: every failure result carries a fixed message chosen by
\* the failing step alone; the messages of "Missing authorization",
\* "Malformed header" and "Invalid scheme" echo the expected format, the
\* message of "Invalid token" is the fixed text "Invalid Bearer token.
\* Please check your authentication credentials." and does not.
C12_FixedMessagePerReason ==
    (phase = "handled" /\ ~result.success) =>
        /\ result.error = ERR_MISSING => result.message = MSG_MISSING
        /\ result.error = ERR_MALFORMED => result.message \in {MSG_MALFORMED, MSG_EMPTY}
        /\ result.error = ERR_SCHEME => result.message = MSG_SCHEME
        /\ result.error = ERR_TOKEN => result.message = MSG_TOKEN
        /\ result.error # ERR_TOKEN => EchoesFormat(result.message)
        /\ result.error = ERR_TOKEN => ~EchoesFormat(result.message)

\* "bEARER T1" against the token t1: the rejection without the format
C12_Witness ==
    /\ phase = "handled"
    /\ bearerTokens = <<W_t1>>
    /\ req.authorization = Present(W_bEARER \o <<" ">> \o W_T1)
    /\ req.path = P_orders
    /\ result.error = ERR_TOKEN
    /\ result.message = MSG_TOKEN

---------------------------------------------------------------------------
(* One request put to two deployments that differ in their configured      *)
(* tokens only                                                             *)

MaxPairPieces == 3    \* pieces concatenated into a header (two deployments)

PairHeaders ==
    {Absent} \cup {Present(Concat(ps)) : ps \in SeqsUpTo(GatePieces, MaxPairPieces)}

\* What the client sees of the gate: the status, error code and message of
\* the response written, status 0 when the gate wrote none
RespOf(eff) ==
    IF \E i \in 1..Len(eff) : eff[i].kind = "response"
    THEN LET i == CHOOSE k \in 1..Len(eff) : eff[k].kind = "response"
         IN [status |-> eff[i].status, error |-> eff[i].body.error,
             message |-> eff[i].body.message]
    ELSE [status |-> 0, error |-> "", message |-> <<>>]

\* bearerAuth run for request r in a deployment configured with validTokens
GateRun(r, validTokens, exempted, enabled) ==
    GateEffects(r, validateBearerAuth(r.authorization, r.path, validTokens, exempted, {}),
                enabled)

InitPair ==
    /\ GateIdle
    /\ parseCall = "none" /\ cmpCall = "none" /\ validCall = "none"
    /\ exemptCall = "none"
    /\ pairCall \in {[authorization |-> h, path |-> p, ip |-> "10.0.0.1",
                      remoteAddress |-> "10.0.0.1", userAgent |-> "curl",
                      sinkOk |-> TRUE, exempted |-> e, tokensA |-> a, tokensB |-> b,
                      done |-> FALSE, effectsA |-> <<>>, effectsB |-> <<>>] :
                        h \in PairHeaders, p \in GatePaths, e \in ExemptedConfigs,
                        a \in TokenSets, b \in TokenSets}
    /\ inflight = "none" /\ config0 = "none" /\ mail = "none"
    /\ ordersDb = "none" /\ orderCall = "none" /\ svcCall = "none" /\ emailClass = "none"

CallPair ==
    /\ ~pairCall.done
    /\ pairCall' = [pairCall EXCEPT
                      !.done = TRUE,
                      !.effectsA = GateRun(pairCall, pairCall.tokensA, pairCall.exempted, FALSE),
                      !.effectsB = GateRun(pairCall, pairCall.tokensB, pairCall.exempted, FALSE)]
    /\ UNCHANGED <<gateVars, callVars, exemptCall, inflight, config0, mail, ordersDb,
                   orderCall, svcCall, emailClass>>

NextPair == CallPair

SpecPair == InitPair /\ [][NextPair]_vars

\* C13: the rejection does not depend on the configured tokens beyond
\* membership of the presented token: for one header and path, two token
\* sets that both lack the presented token give the same status, error
\* code and message, and a header rejected before token validation gives
\* the same response for all token sets.
C13_RejectionIndependentOfTokenSet ==
    pairCall.done =>
        LET h == pairCall.authorization
            toks == IF h.present THEN TokensOf(h.value) ELSE <<>>
            early == Len(toks) # 2 \/ ~EqIgnoreCase(toks[1], BEARER)
            Lacks(T) == \A i \in 1..Len(T) : T[i] # toks[2]
        IN
        (early \/ (Lacks(pairCall.tokensA) /\ Lacks(pairCall.tokensB))) =>
            /\ RespOf(pairCall.effectsA) = RespOf(pairCall.effectsB)
            /\ ~isExemptedPath(pairCall.path, pairCall.exempted) =>
                  RespOf(pairCall.effectsA).status = 401

\* "bEARER T1" put to a deployment with no token and to one with t1, t2
C13_Witness ==
    /\ pairCall.done
    /\ pairCall.authorization = Present(W_bEARER \o <<" ">> \o W_T1)
    /\ pairCall.path = P_orders
    /\ pairCall.tokensA = <<>>
    /\ pairCall.tokensB = <<W_t1, W_t2>>
    /\ RespOf(pairCall.effectsA) = [status |-> 401, error |-> ERR_TOKEN, message |-> MSG_TOKEN]
    /\ RespOf(pairCall.effectsB) = RespOf(pairCall.effectsA)

---------------------------------------------------------------------------
(* The security log *)

LogIdx == {i \in 1..Len(effects) : effects[i].kind = "log"}

---------------------------------------------------------------------------
(* Several requests in flight in one process *)

MaxInflight == 2      \* requests in flight at once

Slots == 1..MaxInflight

ConcRequests ==
    {[authorization |-> h, path |-> p, ip |-> "10.0.0.1", remoteAddress |-> "10.0.0.1",
      userAgent |-> "curl", sinkOk |-> TRUE] : h \in LogHeaders, p \in {P_orders, P_health}}

NoRequest ==
    [authorization |-> Absent, path |-> <<>>, ip |-> "", remoteAddress |-> "",
     userAgent |-> UNDEFINED, sinkOk |-> TRUE]

IdleSlot == [phase |-> "idle", req |-> NoRequest, effects |-> <<>>]

\* A bug to compare against: the loop takes the tokens it tries off the
\* shared array (validTokens.shift()).
TokensAfterShift(validTokens, res) ==
    SubSeq(validTokens, res.calls + 1, Len(validTokens))

\* The configured tokens after a validation: the for-of loop of
\* isValidToken reads the array and leaves it as it was
TokensAfter(validTokens, res) == validTokens

InitConc ==
    /\ bearerTokens \in TokenSets
    /\ exemptedPaths \in ExemptedConfigs
    /\ logSecurityEvents \in BOOLEAN
    /\ phase = "idle" /\ req = "none" /\ result = "none"
    /\ effects = <<>> /\ comparisons = 0
    /\ parseCall = "none" /\ cmpCall = "none" /\ validCall = "none"
    /\ exemptCall = "none" /\ pairCall = "none"
    /\ inflight = [i \in Slots |-> IdleSlot]
    /\ config0 = [tokens |-> bearerTokens, exempted |-> exemptedPaths,
                  log |-> logSecurityEvents]
    /\ mail = "none" /\ ordersDb = "none" /\ orderCall = "none" /\ svcCall = "none" /\ emailClass = "none"

concOthers == <<phase, req, result, effects, comparisons, callVars, exemptCall, pairCall,
                config0, mail, ordersDb, orderCall, svcCall, emailClass>>

\* A request arrives while others are in flight
ArriveC(i) ==
    /\ inflight[i].phase = "idle"
    /\ \E r \in ConcRequests :
           inflight' = [inflight EXCEPT ![i] = [phase |-> "pending", req |-> r,
                                                 effects |-> <<>>]]
    /\ UNCHANGED <<configVars, concOthers>>

\* bearerAuth runs for the request of slot i; it is synchronous, so it runs
\* from beginning to end without another request's code in between
HandleC(i) ==
    /\ inflight[i].phase = "pending"
    /\ LET r == inflight[i].req
           res == validateBearerAuth(r.authorization, r.path, bearerTokens,
                                     exemptedPaths, {})
       IN
       /\ inflight' = [inflight EXCEPT ![i] =
                          [phase |-> "handled", req |-> r,
                           effects |-> GateEffects(r, res, logSecurityEvents)]]
       /\ bearerTokens' = TokensAfter(bearerTokens, res)
    /\ UNCHANGED <<exemptedPaths, logSecurityEvents, concOthers>>

\* The request of slot i ends (response sent, or downstream handler done)
CompleteC(i) ==
    /\ inflight[i].phase = "handled"
    /\ inflight' = [inflight EXCEPT ![i] = IdleSlot]
    /\ UNCHANGED <<configVars, concOthers>>

NextConc == \E i \in Slots : ArriveC(i) \/ HandleC(i) \/ CompleteC(i)

SpecConc == InitConc /\ [][NextConc]_vars

---------------------------------------------------------------------------
(* EmailService: sendMailWithRetry and the three send methods *)

DEFAULT_MAX_RETRIES == 3
DEFAULT_RETRY_DELAY == 2000

\* Largest maxRetries a call of sendMailWithRetry on its own is given
MaxRetriesArg == 3

NOT_INITIALIZED == "Email transporter not initialized"

PublicMethods == {"sendVerificationEmail", "sendPasswordResetEmail", "sendConfirmationEmail"}

\* Errors transporter.sendMail rejects with
SendErrors == {"ECONNREFUSED", "ETIMEDOUT"}

MAIL_TO == "user@example.com"
MAIL_SECRET == "123456"            \* the code, or the confirmation token
APP_DOMAIN == "env.APP_DOMAIN"

\* The console.log line of the fallback of a send method
FallbackLine(method) ==
    CASE method = "sendVerificationEmail" -> <<"Verification code for", MAIL_TO, MAIL_SECRET>>
      [] method = "sendPasswordResetEmail" -> <<"Reset code for", MAIL_TO, MAIL_SECRET>>
      [] method = "sendConfirmationEmail" ->
            <<"Confirmation link for", MAIL_TO,
              <<APP_DOMAIN, "/register/confirmation?uuid=", MAIL_SECRET>>>>

\* The service with no call in progress
MailIdle(transporter) ==
    [transporter |-> transporter, pc |-> "idle", method |-> "",
     maxRetries |-> DEFAULT_MAX_RETRIES, retryDelay |-> DEFAULT_RETRY_DELAY,
     attempt |-> 0, sends |-> 0, errors |-> <<>>, waits |-> <<>>,
     retry |-> "none", retryError |-> "", console |-> <<>>, logged |-> <<>>,
     outcome |-> "none"]

\* A send method is entered: without a transporter it writes the fallback
\* and returns; otherwise it calls sendMailWithRetry with the defaults
EnterSend(m, method) ==
    IF ~m.transporter
    THEN [m EXCEPT !.method = method, !.pc = "done", !.outcome = "resolved",
                   !.logged = <<"warn">>, !.console = <<FallbackLine(method)>>]
    ELSE [m EXCEPT !.method = method, !.pc = "send", !.attempt = 1]

\* sendMailWithRetry is entered on its own
EnterRetry(m, maxRetries) ==
    IF ~m.transporter
    THEN [m EXCEPT !.method = "sendMailWithRetry", !.maxRetries = maxRetries,
                   !.pc = "done", !.retry = "threw", !.retryError = NOT_INITIALIZED,
                   !.outcome = "rejected"]
    ELSE [m EXCEPT !.method = "sendMailWithRetry", !.maxRetries = maxRetries,
                   !.pc = "send", !.attempt = 1]

\* A bug to compare against: the caller's catch block throws after the
\* fallback.
AfterRetryThrewRethrow(m, e) ==
    IF m.method \in PublicMethods
    THEN [m EXCEPT !.pc = "done", !.retry = "threw", !.retryError = e,
                   !.logged = Append(@, "error"),
                   !.console = Append(@, FallbackLine(m.method)),
                   !.outcome = "rejected"]
    ELSE [m EXCEPT !.pc = "done", !.retry = "threw", !.retryError = e,
                   !.outcome = "rejected"]

\* sendMailWithRetry throws e: the catch block of a send method logs the
\* error, writes the fallback and returns; a call on its own rejects
AfterRetryThrew(m, e) ==
    IF m.method \in PublicMethods
    THEN [m EXCEPT !.pc = "done", !.retry = "threw", !.retryError = e,
                   !.logged = Append(@, "error"),
                   !.console = Append(@, FallbackLine(m.method)),
                   !.outcome = "resolved"]
    ELSE [m EXCEPT !.pc = "done", !.retry = "threw", !.retryError = e,
                   !.outcome = "rejected"]

\* sendMailWithRetry returns: a send method logs and returns
AfterRetryReturned(m) ==
    [m EXCEPT !.pc = "done", !.retry = "returned", !.outcome = "resolved",
              !.logged = IF m.method \in PublicMethods THEN Append(@, "info") ELSE @]

\* A bug to compare against: the delay is scheduled after the last failure
\* too, and the first error is the one thrown.
AfterFailureWaitAlways(m, e) ==
    LET m1 == [m EXCEPT !.sends = @ + 1, !.errors = Append(@, e),
                        !.logged = Append(@, "warn"),
                        !.waits = Append(@, m.retryDelay * m.attempt)]
    IN IF m.attempt < m.maxRetries
       THEN [m1 EXCEPT !.pc = "backoff"]
       ELSE AfterRetryThrew(m1, m1.errors[1])

\* The catch block of the loop: sendMail rejected with e on this attempt
AfterFailure(m, e) ==
    LET m1 == [m EXCEPT !.sends = @ + 1, !.errors = Append(@, e),
                        !.logged = Append(@, "warn")]
    IN IF m.attempt < m.maxRetries
       THEN [m1 EXCEPT !.pc = "backoff",
                       !.waits = Append(@, m.retryDelay * m.attempt)]
       ELSE AfterRetryThrew(m1, e)

InitMail ==
    /\ GateIdle
    /\ parseCall = "none" /\ cmpCall = "none" /\ validCall = "none"
    /\ exemptCall = "none" /\ pairCall = "none" /\ inflight = "none" /\ config0 = "none"
    /\ mail \in {MailIdle(t) : t \in BOOLEAN}
    /\ ordersDb = "none" /\ orderCall = "none" /\ svcCall = "none" /\ emailClass = "none"

mailOthers == <<gateVars, callVars, exemptCall, pairCall, inflight, config0, ordersDb,
                orderCall, svcCall, emailClass>>

CallSend ==
    /\ mail.pc = "idle"
    /\ \E method \in PublicMethods : mail' = EnterSend(mail, method)
    /\ UNCHANGED mailOthers

CallRetry ==
    /\ mail.pc = "idle"
    /\ \E n \in 1..MaxRetriesArg : mail' = EnterRetry(mail, n)
    /\ UNCHANGED mailOthers

\* transporter.sendMail resolves
SendOk ==
    /\ mail.pc = "send"
    /\ mail' = AfterRetryReturned([mail EXCEPT !.sends = @ + 1])
    /\ UNCHANGED mailOthers

\* transporter.sendMail rejects
SendFail ==
    /\ mail.pc = "send"
    /\ \E e \in SendErrors : mail' = AfterFailure(mail, e)
    /\ UNCHANGED mailOthers

\* The timer of the delay fires and the loop goes on
BackoffElapsed ==
    /\ mail.pc = "backoff"
    /\ mail' = [mail EXCEPT !.pc = "send", !.attempt = @ + 1]
    /\ UNCHANGED mailOthers

\* The caller has the outcome; the service is ready for the next call
MailReturn ==
    /\ mail.pc = "done"
    /\ mail' = MailIdle(mail.transporter)
    /\ UNCHANGED mailOthers

NextMail == CallSend \/ CallRetry \/ SendOk \/ SendFail \/ BackoffElapsed \/ MailReturn

SpecMail == InitMail /\ [][NextMail]_vars

Min(a, b) == IF a < b THEN a ELSE b

C18_SendMethodsNeverReject ==
    mail.method \in PublicMethods =>
        LET line == CASE mail.method = "sendVerificationEmail" ->
                            <<"Verification code for", MAIL_TO, MAIL_SECRET>>
                      [] mail.method = "sendPasswordResetEmail" ->
                            <<"Reset code for", MAIL_TO, MAIL_SECRET>>
                      [] mail.method = "sendConfirmationEmail" ->
                            <<"Confirmation link for", MAIL_TO,
                              <<APP_DOMAIN, "/register/confirmation?uuid=", MAIL_SECRET>>>>
        IN
        /\ mail.outcome # "rejected"
        /\ mail.pc = "done" => mail.outcome = "resolved"
        /\ ~mail.transporter => (mail.sends = 0 /\ mail.console = <<line>>)
        /\ (mail.transporter /\ mail.retry = "threw") =>
              (mail.sends = DEFAULT_MAX_RETRIES /\ mail.console = <<line>>)
        /\ (mail.transporter /\ mail.retry # "threw") => mail.console = <<>>

\* the confirmation mail fails three times: resolved, with the link on the
\* console
C18_Witness ==
    /\ mail.pc = "done"
    /\ mail.method = "sendConfirmationEmail"
    /\ mail.transporter
    /\ mail.sends = 3
    /\ mail.retry = "threw"
    /\ mail.outcome = "resolved"
    /\ Len(mail.console) = 1

---------------------------------------------------------------------------
(* The orders service: updateOrder and deleteOrder *)

OrderIds == {"o1", "o2", "o3"}
StoredIds == {"o1", "o2"}

\* The columns updateOrder can set from its argument
UpdatableFields == {"title", "price", "link", "status"}
OrderFields == UpdatableFields \cup {"orderId", "updatedAt"}

\* What new Date().toISOString() gives during the call
NOW == "t1"

\* A row as createOrder left it some time before
StoredOrder(orderId, status) ==
    [f \in OrderFields |->
        CASE f = "orderId" -> orderId
          [] f = "updatedAt" -> "t0"
          [] f = "status" -> status
          [] OTHER -> "old"]

\* The tables the calls start from
OrderTables ==
    {[id \in ids |-> StoredOrder(id, IF id = "o2" THEN st ELSE "old")] :
        ids \in SUBSET StoredIds, st \in {"old", "done"}}

\* The updates argument: a field is undefined or a string, which may be empty
UpdateArgs ==
    {[title |-> t, price |-> p, link |-> l, status |-> st] :
        t \in {UNDEFINED, "new", ""}, p \in {UNDEFINED, "new"},
        l \in {UNDEFINED, "new"}, st \in {UNDEFINED, "done", ""}}

NoUpdates == [title |-> UNDEFINED, price |-> UNDEFINED, link |-> UNDEFINED, status |-> UNDEFINED]

ServiceError(errorCode, message) ==
    [name |-> "ServiceError", errorCode |-> errorCode, message |-> message]

\* super(message || ErrorMessages[errorCode])
DefaultMessage(errorCode) == <<"ErrorMessages", errorCode>>

Resolved(value) == [kind |-> "returned", value |-> value]
Rejected(error) == [kind |-> "threw", value |-> error]
Pending == [kind |-> "none", value |-> [void |-> TRUE]]
VOID == [void |-> TRUE]

\* A bug to compare against: a field is taken only when it is truthy.
updateDataTruthy(updates, now) ==
    LET supplied == {f \in UpdatableFields : updates[f] # UNDEFINED /\ updates[f] # ""}
    IN [f \in supplied \cup {"updatedAt"} |->
            IF f = "updatedAt" THEN now ELSE updates[f]]

\* The object given to set(): updatedAt, and each field that is not undefined
updateData(updates, now) ==
    LET supplied == {f \in UpdatableFields : updates[f] # UNDEFINED}
    IN [f \in supplied \cup {"updatedAt"} |->
            IF f = "updatedAt" THEN now ELSE updates[f]]

\* A bug to compare against: the statement writes the row even when no row
\* has the id, as an upsert would.
DbUpdateUpsert(rows, orderId, data) ==
    [id \in DOMAIN rows \cup {orderId} |->
        IF id = orderId
        THEN [f \in OrderFields |->
                IF f \in DOMAIN data THEN data[f]
                ELSE IF id \in DOMAIN rows THEN rows[id][f]
                ELSE IF f = "orderId" THEN orderId ELSE ""]
        ELSE rows[id]]

\* db.update(orders).set(data).where(eq(orders.orderId, orderId))
DbUpdate(rows, orderId, data) ==
    [id \in DOMAIN rows |->
        IF id = orderId
        THEN [f \in OrderFields |-> IF f \in DOMAIN data THEN data[f] ELSE rows[id][f]]
        ELSE rows[id]]

\* db.delete(orders).where(eq(orders.orderId, orderId))
DbDelete(rows, orderId) == [id \in DOMAIN rows \ {orderId} |-> rows[id]]

\* db.select().from(orders).where(eq(orders.orderId, orderId)).limit(1)
DbSelect(rows, orderId) == {rows[id] : id \in DOMAIN rows \cap {orderId}}

IdleCall ==
    [pc |-> "idle", op |-> "", orderId |-> "", updates |-> NoUpdates,
     data |-> updateData(NoUpdates, "t0"), outcome |-> Pending]

OrderCalls == 1..1

InitOrders ==
    /\ GateIdle
    /\ parseCall = "none" /\ cmpCall = "none" /\ validCall = "none"
    /\ exemptCall = "none" /\ pairCall = "none" /\ inflight = "none" /\ config0 = "none"
    /\ mail = "none" /\ svcCall = "none" /\ emailClass = "none"
    /\ \E table \in OrderTables : ordersDb = [rows |-> table, rows0 |-> table]
    /\ orderCall = [i \in OrderCalls |-> IdleCall]

orderOthers == <<gateVars, callVars, exemptCall, pairCall, inflight, config0, mail, svcCall, emailClass>>

\* updateOrder is called and its select is sent
StartUpdate(i) ==
    /\ orderCall[i].pc = "idle"
    /\ \E orderId \in OrderIds, updates \in UpdateArgs :
          orderCall' = [orderCall EXCEPT ![i] =
             [@ EXCEPT !.pc = "lookup", !.op = "updateOrder", !.orderId = orderId,
                       !.updates = updates]]
    /\ UNCHANGED <<ordersDb, orderOthers>>

\* deleteOrder is called and its select is sent
StartDelete(i) ==
    /\ orderCall[i].pc = "idle"
    /\ \E orderId \in OrderIds :
          orderCall' = [orderCall EXCEPT ![i] =
             [@ EXCEPT !.pc = "lookup", !.op = "deleteOrder", !.orderId = orderId]]
    /\ UNCHANGED <<ordersDb, orderOthers>>

\* The select answers: no row throws ORDER_NOT_FOUND, a row sends the write
Lookup(i) ==
    /\ orderCall[i].pc = "lookup"
    /\ LET c == orderCall[i] IN
       orderCall' = [orderCall EXCEPT ![i] =
          IF DbSelect(ordersDb.rows, c.orderId) = {}
          THEN [c EXCEPT !.pc = "done",
                         !.outcome = Rejected(ServiceError("ORDER_NOT_FOUND",
                                                         DefaultMessage("ORDER_NOT_FOUND")))]
          ELSE [c EXCEPT !.pc = "write",
                         !.data = IF c.op = "updateOrder"
                                  THEN updateData(c.updates, NOW) ELSE @]]
    /\ UNCHANGED <<ordersDb, orderOthers>>

\* The update or the delete statement runs and the call ends
Write(i) ==
    /\ orderCall[i].pc = "write"
    /\ LET c == orderCall[i]
           rows == ordersDb.rows
       IN IF c.op = "updateOrder"
          THEN LET after == DbUpdate(rows, c.orderId, c.data)
                   returning == DbSelect(after, c.orderId)
               IN /\ ordersDb' = [ordersDb EXCEPT !.rows = after]
                  /\ orderCall' = [orderCall EXCEPT ![i] =
                       [c EXCEPT !.pc = "done",
                                 !.outcome =
                                    IF returning = {}
                                    THEN Rejected(ServiceError("INTERNAL_SERVER_ERROR",
                                                             "Failed to update order"))
                                    ELSE Resolved(CHOOSE r \in returning : TRUE)]]
          ELSE /\ ordersDb' = [ordersDb EXCEPT !.rows = DbDelete(rows, c.orderId)]
               /\ orderCall' = [orderCall EXCEPT ![i] =
                    [c EXCEPT !.pc = "done", !.outcome = Resolved(VOID)]]
    /\ UNCHANGED orderOthers

NextOrders ==
    \E i \in DOMAIN orderCall : StartUpdate(i) \/ StartDelete(i) \/ Lookup(i) \/ Write(i)

SpecOrders == InitOrders /\ [][NextOrders]_vars

\* The call of the one-call specification
TheCall == orderCall[1]

\* C19: with an orderId that matches no stored order, updateOrder and
\* deleteOrder throw ServiceError ORDER_NOT_FOUND and the stored orders stay
\* as they were; a successful updateOrder changes, in the identified order
\* only, the supplied fields and updatedAt; a successful deleteOrder removes
\* the identified order and nothing else.
C19_OrderFrame ==
    LET c == TheCall
        before == ordersDb.rows0
        now == ordersDb.rows
    IN
    /\ c.pc # "done" => now = before
    /\ (c.pc = "done" /\ c.orderId \notin DOMAIN before) =>
          /\ c.outcome.kind = "threw"
          /\ c.outcome.value.name = "ServiceError"
          /\ c.outcome.value.errorCode = "ORDER_NOT_FOUND"
          /\ now = before
    /\ (c.pc = "done" /\ c.orderId \in DOMAIN before) => c.outcome.kind = "returned"
    /\ (c.pc = "done" /\ c.op = "updateOrder" /\ c.outcome.kind = "returned") =>
          /\ DOMAIN now = DOMAIN before
          /\ \A id \in DOMAIN before \ {c.orderId} : now[id] = before[id]
          /\ \A f \in UpdatableFields :
                now[c.orderId][f] =
                    IF c.updates[f] = UNDEFINED THEN before[c.orderId][f] ELSE c.updates[f]
          /\ now[c.orderId]["orderId"] = c.orderId
          /\ now[c.orderId]["updatedAt"] = NOW
          /\ c.outcome.value = now[c.orderId]
    /\ (c.pc = "done" /\ c.op = "deleteOrder" /\ c.outcome.kind = "returned") =>
          /\ DOMAIN now = DOMAIN before \ {c.orderId}
          /\ \A id \in DOMAIN now : now[id] = before[id]

\* o1 updated with an empty title and a new price, next to an untouched o2
C19_Witness ==
    /\ TheCall.pc = "done"
    /\ TheCall.op = "updateOrder"
    /\ TheCall.orderId = "o1"
    /\ TheCall.outcome.kind = "returned"
    /\ TheCall.updates.title = ""
    /\ TheCall.updates.price = "new"
    /\ TheCall.updates.link = UNDEFINED
    /\ ordersDb.rows["o1"]["title"] = ""
    /\ ordersDb.rows["o1"]["link"] = "old"
    /\ "o2" \in DOMAIN ordersDb.rows

---------------------------------------------------------------------------
(* handleServiceError: service error messages to AppError *)

errorMappings ==
    << [message |-> "User not found", code |-> "USER_NOT_FOUND", status |-> 404],
       [message |-> "User with this email already exists", code |-> "USER_ALREADY_EXISTS",
        status |-> 409],
       [message |-> "Email already in use", code |-> "EMAIL_ALREADY_IN_USE", status |-> 409],
       [message |-> "Invalid credentials", code |-> "INVALID_CREDENTIALS", status |-> 401],
       [message |-> "No reset code found for this email", code |-> "RESET_CODE_NOT_FOUND",
        status |-> 404],
       [message |-> "Invalid reset code", code |-> "INVALID_RESET_CODE", status |-> 400],
       [message |-> "Reset code has expired", code |-> "RESET_CODE_EXPIRED", status |-> 400] >>

MappedMessages == {errorMappings[i].message : i \in 1..Len(errorMappings)}

\* Messages near the mapped ones, and unrelated ones
OtherMessages ==
    {"user not found", "User not found ", "User not found.", "Invalid reset code.",
     "Order not found", ""}

\* A thrown value: kind is its class ("string", "object" and "undefined"
\* are not Errors), message its message property or, for a string, its text
Value(kind, message, status, code) ==
    [kind |-> kind, message |-> message, status |-> status, code |-> code]

\* new AppError(message, status, code)
AppError(message, status, code) == Value("AppError", message, status, code)

ThrownValues ==
    {Value(k, m, 0, "") : k \in {"Error", "ServiceError", "object", "string"},
                          m \in MappedMessages \cup OtherMessages}
    \cup {Value("AppError", m, 500, "INTERNAL_SERVER_ERROR") :
             m \in MappedMessages \cup OtherMessages}
    \cup {Value("undefined", "", 0, "")}

\* error instanceof Error
instanceofError(v) == v.kind \in {"Error", "ServiceError", "AppError"}

\* error.message as the comparison reads it
messageOf(v) == IF v.kind \in {"string", "undefined"} THEN UNDEFINED ELSE v.message

\* errorMappings.find(m => m.message === message): the matching entries,
\* first one first
find(message) ==
    LET hits == {i \in 1..Len(errorMappings) : errorMappings[i].message = message}
    IN IF hits = {} THEN <<>>
       ELSE <<errorMappings[CHOOSE i \in hits : \A j \in hits : i <= j]>>

\* A bug to compare against: the message is matched whatever the value is.
handleServiceErrorAnyValue(error) ==
    LET mapping == find(messageOf(error))
    IN IF mapping # <<>>
       THEN Rejected(AppError(messageOf(error), mapping[1].status, mapping[1].code))
       ELSE Rejected(error)

handleServiceError(error) ==
    LET mapping == IF instanceofError(error) THEN find(error.message) ELSE <<>>
    IN IF instanceofError(error) /\ mapping # <<>>
       THEN Rejected(AppError(error.message, mapping[1].status, mapping[1].code))
       ELSE Rejected(error)

InitService ==
    /\ GateIdle
    /\ parseCall = "none" /\ cmpCall = "none" /\ validCall = "none"
    /\ exemptCall = "none" /\ pairCall = "none" /\ inflight = "none" /\ config0 = "none"
    /\ mail = "none" /\ ordersDb = "none" /\ orderCall = "none"
    /\ \E v \in ThrownValues : svcCall = [error |-> v, done |-> FALSE, ret |-> Pending]
    /\ emailClass = "none"

CallService ==
    /\ ~svcCall.done
    /\ svcCall' = [svcCall EXCEPT !.done = TRUE, !.ret = handleServiceError(svcCall.error)]
    /\ UNCHANGED <<gateVars, callVars, exemptCall, pairCall, inflight, config0, mail,
                   ordersDb, orderCall, emailClass>>

NextService == CallService

SpecService == InitService /\ [][NextService]_vars

\* C20: handleServiceError always throws; given an Error whose message is
\* exactly one of the seven mapped strings it throws an AppError with that
\* message and the mapped status and code (404 for "User not found" and "No
\* reset code found for this email", 409 for the two duplicate-email
\* messages, 401 for "Invalid credentials", 400 for the two reset-code
\* messages); any other value is thrown again as it came.
C20_MapsSevenMessagesElseRethrows ==
    svcCall.done =>
        LET e == svcCall.error
            isError == e.kind \in {"Error", "ServiceError", "AppError"}
            expected ==
                CASE e.message = "User not found" -> <<404, "USER_NOT_FOUND">>
                  [] e.message = "No reset code found for this email" ->
                        <<404, "RESET_CODE_NOT_FOUND">>
                  [] e.message = "User with this email already exists" ->
                        <<409, "USER_ALREADY_EXISTS">>
                  [] e.message = "Email already in use" -> <<409, "EMAIL_ALREADY_IN_USE">>
                  [] e.message = "Invalid credentials" -> <<401, "INVALID_CREDENTIALS">>
                  [] e.message = "Invalid reset code" -> <<400, "INVALID_RESET_CODE">>
                  [] e.message = "Reset code has expired" -> <<400, "RESET_CODE_EXPIRED">>
                  [] OTHER -> <<>>
        IN /\ svcCall.ret.kind = "threw"
           /\ IF isError /\ expected # <<>>
              THEN svcCall.ret.value =
                      [kind |-> "AppError", message |-> e.message,
                       status |-> expected[1], code |-> expected[2]]
              ELSE svcCall.ret.value = e

\* a plain object that carries a mapped message is thrown again untouched
C20_Witness ==
    /\ svcCall.done
    /\ svcCall.error.kind = "object"
    /\ svcCall.error.message = "Invalid credentials"
    /\ svcCall.ret.kind = "threw"
    /\ svcCall.ret.value = svcCall.error

---------------------------------------------------------------------------
(* updateOrder and deleteOrder racing on one order *)

MaxOrderCalls == 3     \* calls in progress at once

\* The racing calls all name o1; o2 is the bystander
RaceUpdateArgs ==
    {[NoUpdates EXCEPT !.title = "new"], [NoUpdates EXCEPT !.status = "done"]}

RaceTables ==
    {[id \in ids |-> StoredOrder(id, "old")] : ids \in {{"o1"}, {"o1", "o2"}}}

InitOrdersRace ==
    /\ GateIdle
    /\ parseCall = "none" /\ cmpCall = "none" /\ validCall = "none"
    /\ exemptCall = "none" /\ pairCall = "none" /\ inflight = "none" /\ config0 = "none"
    /\ mail = "none" /\ svcCall = "none" /\ emailClass = "none"
    /\ \E table \in RaceTables : ordersDb = [rows |-> table, rows0 |-> table]
    /\ orderCall = [i \in 1..MaxOrderCalls |-> IdleCall]

StartUpdateRace(i) ==
    /\ orderCall[i].pc = "idle"
    /\ \E updates \in RaceUpdateArgs :
          orderCall' = [orderCall EXCEPT ![i] =
             [@ EXCEPT !.pc = "lookup", !.op = "updateOrder", !.orderId = "o1",
                       !.updates = updates]]
    /\ UNCHANGED <<ordersDb, orderOthers>>

StartDeleteRace(i) ==
    /\ orderCall[i].pc = "idle"
    /\ orderCall' = [orderCall EXCEPT ![i] =
          [@ EXCEPT !.pc = "lookup", !.op = "deleteOrder", !.orderId = "o1"]]
    /\ UNCHANGED <<ordersDb, orderOthers>>

\* Each statement runs on its own; the calls interleave between statements
NextOrdersRace ==
    \E i \in DOMAIN orderCall :
        StartUpdateRace(i) \/ StartDeleteRace(i) \/ Lookup(i) \/ Write(i)

SpecOrdersRace == InitOrdersRace /\ [][NextOrdersRace]_vars

\* C22: however updateOrder and deleteOrder calls on one orderId interleave,
\* updateOrder returns a row only when its write found the order, and then
\* the row as written; with the order absent at its lookup it throws
\* ORDER_NOT_FOUND, and with the order deleted between its lookup and its
\* write it throws INTERNAL_SERVER_ERROR "Failed to update order" and
\* writes nothing; a deleteOrder whose lookup found the order completes
\* without error and leaves the order absent, even when another deleteOrder
\* removed it first.
C22_RaceOutcomes ==
    [][\A i \in DOMAIN orderCall :
          LET c == orderCall[i]
              d == orderCall'[i]
              rows == ordersDb.rows
              after == ordersDb'.rows
          IN
          /\ (c.pc = "lookup" /\ d.pc # "lookup") =>
                /\ after = rows
                /\ IF c.orderId \in DOMAIN rows
                   THEN d.pc = "write" /\ d.outcome.kind = "none"
                   ELSE /\ d.pc = "done"
                        /\ d.outcome.kind = "threw"
                        /\ d.outcome.value.errorCode = "ORDER_NOT_FOUND"
          /\ (c.pc = "write" /\ d.pc # "write" /\ c.op = "updateOrder") =>
                /\ d.pc = "done"
                /\ IF c.orderId \in DOMAIN rows
                   THEN /\ d.outcome.kind = "returned"
                        /\ c.orderId \in DOMAIN after
                        /\ d.outcome.value = after[c.orderId]
                        /\ \A f \in UpdatableFields :
                              c.updates[f] # UNDEFINED => after[c.orderId][f] = c.updates[f]
                   ELSE /\ d.outcome.kind = "threw"
                        /\ d.outcome.value.errorCode = "INTERNAL_SERVER_ERROR"
                        /\ d.outcome.value.message = "Failed to update order"
                        /\ after = rows
          /\ (c.pc = "write" /\ d.pc # "write" /\ c.op = "deleteOrder") =>
                /\ d.pc = "done"
                /\ d.outcome.kind = "returned"
                /\ c.orderId \notin DOMAIN after
                /\ \A id \in DOMAIN rows \ {c.orderId} : id \in DOMAIN after /\ after[id] = rows[id]
      ]_vars

\* an update that lost the race to INTERNAL_SERVER_ERROR, and two deletes
\* that both completed, with o1 gone and o2 untouched
C22_Witness ==
    /\ orderCall[1].pc = "done" /\ orderCall[1].op = "updateOrder"
    /\ orderCall[1].outcome.kind = "threw"
    /\ orderCall[1].outcome.value.errorCode = "INTERNAL_SERVER_ERROR"
    /\ orderCall[2].pc = "done" /\ orderCall[2].op = "deleteOrder"
    /\ orderCall[2].outcome.kind = "returned"
    /\ orderCall[3].pc = "done" /\ orderCall[3].op = "deleteOrder"
    /\ orderCall[3].outcome.kind = "returned"
    /\ DOMAIN ordersDb.rows = {"o2"}
    /\ ordersDb.rows["o2"] = ordersDb.rows0["o2"]

---------------------------------------------------------------------------
(* EmailService.getInstance and the construction of the instance *)

MaxGetInstance == 3    \* calls of getInstance in one process

\* The service before the module has built it: no method can be called
MailUnbuilt == [MailIdle(FALSE) EXCEPT !.pc = "unbuilt"]

\* The static side before the first getInstance: instance 0 is null;
\* complete tells whether the four SMTP settings are all set
ClassIdle(complete) ==
    [instance |-> 0, built |-> 0, created |-> 0, complete |-> complete,
     handles |-> <<>>, transporter0 |-> FALSE, verify |-> "none", logged |-> <<>>]

\* initializeTransporter: nothing without the settings; otherwise
\* createTransport, whose failure is caught and leaves the transporter null
initializeTransporter(complete, createOk) ==
    IF ~complete
    THEN [transporter |-> FALSE, created |-> 0, logged |-> <<"warn">>, verify |-> "none"]
    ELSE IF createOk
    THEN [transporter |-> TRUE, created |-> 1, logged |-> <<"info">>, verify |-> "scheduled"]
    ELSE [transporter |-> FALSE, created |-> 1, logged |-> <<"error">>, verify |-> "none"]

\* new EmailService(): the constructor runs initializeTransporter
Construct(cls, createOk) ==
    LET t == initializeTransporter(cls.complete, createOk) IN
    [cls |-> [cls EXCEPT !.instance = cls.built + 1, !.built = @ + 1,
                         !.created = @ + t.created, !.verify = t.verify,
                         !.logged = @ \o t.logged],
     svc |-> MailIdle(t.transporter)]

\* A bug to compare against: every call builds a new instance.
getInstanceAlwaysNew(cls, svc, createOk) ==
    LET r == Construct(cls, createOk) IN
    [cls |-> [r.cls EXCEPT !.handles = Append(@, r.cls.instance)], svc |-> r.svc]

\* getInstance: the instance is built on the first call and returned on all
getInstance(cls, svc, createOk) ==
    LET r == IF cls.instance = 0 THEN Construct(cls, createOk)
             ELSE [cls |-> cls, svc |-> svc]
    IN [cls |-> [r.cls EXCEPT !.handles = Append(@, r.cls.instance)], svc |-> r.svc]

InitInstance ==
    /\ GateIdle
    /\ parseCall = "none" /\ cmpCall = "none" /\ validCall = "none"
    /\ exemptCall = "none" /\ pairCall = "none" /\ inflight = "none" /\ config0 = "none"
    /\ ordersDb = "none" /\ orderCall = "none" /\ svcCall = "none"
    /\ mail = MailUnbuilt
    /\ emailClass \in {ClassIdle(c) : c \in BOOLEAN}

instanceOthers == <<gateVars, callVars, exemptCall, pairCall, inflight, config0, ordersDb,
                    orderCall, svcCall>>

\* Some module calls EmailService.getInstance(); the first call is the one
\* of the module itself
GetInstance ==
    /\ Len(emailClass.handles) < MaxGetInstance
    /\ \E createOk \in BOOLEAN :
          LET r == getInstance(emailClass, mail, createOk) IN
          /\ mail' = r.svc
          /\ emailClass' = [r.cls EXCEPT !.transporter0 =
                               IF emailClass.built = 0 THEN r.svc.transporter ELSE @]
    /\ UNCHANGED instanceOthers

\* The timer set by initializeTransporter fires: verifyConnection logs the
\* outcome of transporter.verify() and changes nothing else
VerifyConnection ==
    /\ emailClass.verify = "scheduled"
    /\ \E ok \in BOOLEAN :
          emailClass' = [emailClass EXCEPT !.verify = IF ok THEN "verified" ELSE "failed",
                                           !.logged = Append(@, "info")]
    /\ UNCHANGED <<mail, instanceOthers>>

NextInstance == GetInstance \/ VerifyConnection \/ NextMail

SpecInstance == InitInstance /\ [][NextInstance]_vars

\* C23: every getInstance call returns the one instance, so the constructor
\* and createTransport run at most once in a process; the transporter keeps
\* the value construction gave it, so a service built without complete SMTP
\* settings or whose createTransport failed sends nothing and writes the
\* console fallback on every later send.
C23_OneInstanceFixedTransporter ==
    /\ emailClass.built <= 1
    /\ emailClass.created <= 1
    /\ \A i \in 1..Len(emailClass.handles) : emailClass.handles[i] = emailClass.handles[1]
    /\ emailClass.handles # <<>> => emailClass.built = 1
    /\ emailClass.built = 0 => mail.pc = "unbuilt"
    /\ emailClass.built >= 1 =>
          /\ mail.transporter = emailClass.transporter0
          /\ ~emailClass.complete => ~mail.transporter
          /\ ~mail.transporter =>
                /\ mail.sends = 0
                /\ (mail.pc = "done" /\ mail.method \in PublicMethods) =>
                      /\ mail.outcome = "resolved"
                      /\ Len(mail.console) = 1

\* createTransport failed at the first of three getInstance calls; a later
\* password reset mail goes to the console
C23_Witness ==
    /\ emailClass.complete
    /\ emailClass.built = 1
    /\ emailClass.created = 1
    /\ emailClass.handles = <<1, 1, 1>>
    /\ ~mail.transporter
    /\ mail.pc = "done"
    /\ mail.method = "sendPasswordResetEmail"
    /\ mail.console = <<FallbackLine("sendPasswordResetEmail")>>

=============================================================================
